---- MODULE Spec2Model ----
(***************************************************************************)
(* Block segmentation of cleanmd2epub: DocumentParser.split_content and    *)
(* the helpers it calls (src/src/core/document_parser.py).                 *)
(*                                                                         *)
(* A text is a sequence of characters.  One character stands for each      *)
(* class of characters the code tells apart:                               *)
(*   "a"   a Latin letter            (weight 1)                            *)
(*   "Z"   a CJK ideograph, U+4E00..U+9FFF (weight 2)                      *)
(*   "\n"  a line feed, " " a space  (whitespace for strip() and \s)       *)
(*   "."   a Latin sentence terminator  (. ! ?)                            *)
(*   "o"   a Chinese sentence terminator (U+3002, U+FF01, U+FF1F)          *)
(*   "#"   the Markdown header mark                                        *)
(* The program is sequential; pc is the position of its single thread and  *)
(* each call frame (packer, _adjust_block_sizes, _split_large_block,       *)
(* _split_by_sentences, _force_split_block) is one record variable.        *)
(*                                                                         *)
(* Rewriting of the blocks: TextProcessor.process_block, process_document  *)
(* and merge_blocks (src/src/core/text_processor.py) with the file cache   *)
(* (src/src/utils/cache.py).  The model service is the environment: it     *)
(* answers each invocation with the next outcome of model_script.          *)
(***************************************************************************)
EXTENDS Integers, Sequences, FiniteSets, TLC

VARIABLES
    frontmatter,     \* argument of split_content
    main_content,    \* argument of split_content
    max_block_size,  \* config.max_block_size
    min_block_size,  \* config.min_block_size
    pc,              \* position of the thread
    blocks,          \* split_content's list `blocks`; at "done" the value returned
    pack,            \* locals of split_content's packing loop
    adjust,          \* locals of _adjust_block_sizes
    large,           \* locals of _split_large_block
    sent,            \* locals of _split_by_sentences
    force,           \* locals of _force_split_block
    merge_event,     \* history: the last merge performed by the merge scan
    cache,           \* TextProcessor.cache: the files of the cache directory
    now,             \* time.time(), in days
    model_script,    \* the outcomes the model gives to the next invocations
    tp,              \* TextProcessor: position and locals of the running call
    trace            \* history: the calls made on the TextProcessor

\* the state of the TextProcessor and of what it calls
processor == <<cache, now, model_script, tp, trace>>

vars == <<frontmatter, main_content, max_block_size, min_block_size, pc, blocks,
          pack, adjust, large, sent, force, merge_event, processor>>

-----------------------------------------------------------------------------
(* Bounds of the model *)

\* longest input: Len(frontmatter) + Len(main_content) <= MaxLen
MaxLen == 5

\* largest max_block_size tried
MaxSize == 3

\* most paragraphs of a mainmatter built from whole paragraphs
MaxParagraphs == 4

\* longest script of model outcomes
MaxScript == 3

\* most calls made on the TextProcessor in one behaviour
MaxCalls == 2

\* latest time reached, in days
MaxClock == 8

\* largest position of a block handed to the TextProcessor
MaxPosition == 1

-----------------------------------------------------------------------------
(* Characters *)

HAN == "Z"
NL == "\n"
SP == " "
DOT == "."
CJK_STOP == "o"
HASH == "#"

Whitespace == {NL, SP}
ChineseTerminators == {CJK_STOP}
LatinTerminators == {DOT}

Alphabet == {"a", HAN, NL, DOT}
FrontAlphabet == {HAN, NL}
HeaderAlphabet == {"a", HASH, SP, NL}
StopAlphabet == {"a", CJK_STOP, SP, DOT}
PlainAlphabet == {"a", NL}
LoopAlphabet == {"a", HAN, NL}

Strings(alphabet, n) == UNION {[1..k -> alphabet] : k \in 0..n}

-----------------------------------------------------------------------------
(* Pure helpers *)

\* mutant: an ideograph weighs as much as any other character
CharWeight_Flat(char) == 1

\* weight of one character: 2 inside U+4E00..U+9FFF, else 1
CharWeight(char) == IF char = HAN THEN 2 ELSE 1

\* mutant: whitespace is skipped by the count
RECURSIVE count_chars_NoSpace(_)
count_chars_NoSpace(text) ==
    IF text = <<>> THEN 0
    ELSE (IF Head(text) \in {"\n", " "} THEN 0 ELSE CharWeight(Head(text)))
             + count_chars_NoSpace(Tail(text))

\* _count_chars
RECURSIVE count_chars(_)
count_chars(text) ==
    IF text = <<>> THEN 0 ELSE CharWeight(Head(text)) + count_chars(Tail(text))

IsSpace(char) == char \in Whitespace

RECURSIVE lstrip(_)
lstrip(s) == IF s # <<>> /\ IsSpace(Head(s)) THEN lstrip(Tail(s)) ELSE s

RECURSIVE rstrip(_)
rstrip(s) ==
    IF s # <<>> /\ IsSpace(s[Len(s)]) THEN rstrip(SubSeq(s, 1, Len(s) - 1)) ELSE s

\* str.strip()
strip(s) == rstrip(lstrip(s))

\* str.split("\n\n"): cur is the piece being read
RECURSIVE SplitBlank(_, _)
SplitBlank(s, cur) ==
    IF s = <<>> THEN <<cur>>
    ELSE IF Len(s) >= 2 /\ s[1] = NL /\ s[2] = NL
         THEN <<cur>> \o SplitBlank(SubSeq(s, 3, Len(s)), <<>>)
         ELSE SplitBlank(Tail(s), Append(cur, Head(s)))

\* mutant: blank paragraphs are not filtered out
Paragraphs_KeepBlank(text) == SplitBlank(text, <<>>)

\* [p for p in text.split("\n\n") if p.strip()]
Paragraphs(text) == SelectSeq(SplitBlank(text, <<>>), LAMBDA p : strip(p) # <<>>)

\* sep.join(parts)
RECURSIVE join(_, _)
join(sep, parts) ==
    IF parts = <<>> THEN <<>>
    ELSE IF Len(parts) = 1 THEN parts[1]
    ELSE parts[1] \o sep \o join(sep, Tail(parts))

BlankLine == <<NL, NL>>

\* ContentBlock(...).  sliced, merged and forced are history fields (not in
\* the code): the block is or holds a forced slice, was formed by a merge,
\* was formed by a forced (undersize) merge.
ContentBlock(block_type, level, position, content) ==
    [block_type |-> block_type, level |-> level, position |-> position,
     content |-> content, sliced |-> FALSE, merged |-> FALSE, forced |-> FALSE]

Null == [none |-> TRUE]

\* re.finditer over "([CJK stop])|([.!?](?:\s|$))" and the slicing of lines
\* 323-334: k is the scan position, last_end the end of the last match
\* (both count characters already consumed).
RECURSIVE SentenceScan(_, _, _)
SentenceScan(content, k, last_end) ==
    LET Piece(end) == strip(SubSeq(content, last_end + 1, end))
        Emit(end) == IF Piece(end) # <<>> THEN <<Piece(end)>> ELSE <<>>
    IN  IF k > Len(content)
        THEN IF last_end < Len(content) THEN Emit(Len(content)) ELSE <<>>
        ELSE IF content[k] \in ChineseTerminators
        THEN Emit(k) \o SentenceScan(content, k + 1, k)
        ELSE IF content[k] \in LatinTerminators /\ k < Len(content)
                /\ IsSpace(content[k + 1])
        THEN Emit(k + 1) \o SentenceScan(content, k + 2, k + 1)
        ELSE IF content[k] \in LatinTerminators /\ k = Len(content)
        THEN Emit(k) \o SentenceScan(content, k + 1, k)
        ELSE SentenceScan(content, k + 1, last_end)

\* mutant: the content is never segmented
Sentences_Whole(content) ==
    IF strip(content) # <<>> THEN <<strip(content)>> ELSE <<>>

\* the list `sentences` of _split_by_sentences
Sentences(content) == SentenceScan(content, 1, 0)

\* mutant: the slice stops one unit short of max_size
RECURSIVE FitLength_Short(_, _, _)
FitLength_Short(remaining, count, max_size) ==
    IF remaining = <<>> \/ count + CharWeight(Head(remaining)) >= max_size
    THEN 0
    ELSE 1 + FitLength_Short(Tail(remaining),
                             count + CharWeight(Head(remaining)), max_size)

\* the for loop of _force_split_block: the number of leading characters of
\* remaining whose weights sum to at most max_size
RECURSIVE FitLength(_, _, _)
FitLength(remaining, count, max_size) ==
    IF remaining = <<>> \/ count + CharWeight(Head(remaining)) > max_size
    THEN 0
    ELSE 1 + FitLength(Tail(remaining), count + CharWeight(Head(remaining)), max_size)

Max(a, b) == IF a >= b THEN a ELSE b
Min(a, b) == IF a <= b THEN a ELSE b

\* mutant: the slice is not forced to hold at least one character
SliceLength_NoMinimum(remaining, max_size) == FitLength(remaining, 0, max_size)

\* length = max(1, length)
SliceLength(remaining, max_size) == Max(1, FitLength(remaining, 0, max_size))

\* mutant: the slice boundary is off by one and a character is skipped
RestAfterSlice_SkipsChar(remaining, length) ==
    strip(SubSeq(remaining, length + 2, Len(remaining)))

\* remaining = remaining[length:].strip()
RestAfterSlice(remaining, length) ==
    strip(SubSeq(remaining, length + 1, Len(remaining)))

\* mutant: the packers admit one unit too many
Fits_OffByOne(current_size, piece_size, max_size) ==
    current_size + piece_size <= max_size + 1

\* the packing test shared by the three packers
Fits(current_size, piece_size, max_size) == current_size + piece_size <= max_size

\* mutant: a tolerance of 50% instead of 20%
WithinTolerance_Half(combined_size) == 10 * combined_size <= 15 * max_block_size

\* combined_size <= max_block_size * 1.2  (exact in tenths; the float product
\* agrees with it for every max_block_size the model tries)
WithinTolerance(combined_size) == 10 * combined_size <= 12 * max_block_size

\* mutant: the forced-merge rule is left out
Undersized_Never(current_size) == FALSE

\* current_size < min_block_size
Undersized(current_size) == current_size < min_block_size

\* mutant: the positions are not rewritten after the scan
Renumber_Keep(list, i) == list

\* for i, block in enumerate(merged_blocks): block.position = i
RECURSIVE Renumber(_, _)
Renumber(list, i) ==
    IF list = <<>> THEN <<>>
    ELSE <<[Head(list) EXCEPT !.position = i]>> \o Renumber(Tail(list), i + 1)

\* merged_count == 0
NoMergeInScan(merged_count) == merged_count = 0

-----------------------------------------------------------------------------
(* Initial states: the arguments and the configuration *)

NoPack == Null
NoAdjust == Null
NoLarge == Null
NoSent == Null
NoForce == Null
NoMerge == [kind |-> "none", running |-> 0, actual |-> 0, combined |-> 0]

\* code point of a character
CharCode(char) ==
    CASE char = NL -> 10
      [] char = SP -> 32
      [] char = HASH -> 35
      [] char = DOT -> 46
      [] char = "a" -> 97
      [] char = "r" -> 114
      [] char = "s" -> 115
      [] char = "{" -> 123
      [] char = "}" -> 125
      [] char = CJK_STOP -> 12290
      [] char = HAN -> 20013

HashModulus == 65536

\* hash(content): any function of the text that is fixed for the life of the
\* process; a polynomial hash stands for it
RECURSIVE HashFrom(_, _)
HashFrom(h, text) ==
    IF text = <<>> THEN h
    ELSE HashFrom((31 * h + CharCode(Head(text))) % HashModulus, Tail(text))

\* cache_key = f"block_{hash(block.content)}"
CacheKey(block) == HashFrom(7, block.content)

\* Cache.__init__: expire_days
ExpireDays == 7

\* the cache directory without files
EmptyCache == [key \in {} |-> Null]

\* ContentBlock.to_dict
to_dict(block) ==
    [content |-> block.content, block_type |-> block.block_type,
     level |-> block.level, position |-> block.position]

\* ContentBlock.from_dict
from_dict(data) ==
    ContentBlock(data.block_type, data.level, data.position, data.content)

\* Cache.get with an entry expiring at the age of expire_days already
Fresh_Early(key) ==
    key \in DOMAIN cache /\ ~(now - cache[key].timestamp >= ExpireDays)

\* an entry of the cache is read: it exists and time.time() - timestamp
\* does not exceed expire_seconds
Fresh(key) == key \in DOMAIN cache /\ ~(now - cache[key].timestamp > ExpireDays)

\* Cache.get: the value returned
CacheValue(key) == IF Fresh(key) THEN cache[key].value ELSE Null

\* Cache.get: the files left, an expired entry being unlinked
CacheAfterGet(key) ==
    IF key \in DOMAIN cache /\ ~Fresh(key)
    THEN [k \in DOMAIN cache \ {key} |-> cache[k]]
    ELSE cache

\* Cache.set
CacheAfterSet(files, key, value) ==
    [k \in DOMAIN files \cup {key} |->
        IF k = key THEN [timestamp |-> now, value |-> value] ELSE files[k]]

\* outcomes of one invocation of the model
Raises == [kind |-> "raise"]
TimesOut == [kind |-> "timeout"]
Responds(text) == [kind |-> "text", text |-> text]

\* what generate_content_async answers once the script is over
DefaultOutcome == Responds(<<"r">>)

\* no call is running on the TextProcessor
Idle ==
    [pc |-> "idle", caller |-> "none", block |-> Null, list |-> <<>>,
     script |-> <<>>, response |-> Null, result |-> Null, calls |-> 0,
     doc |-> Null]

ProcessorAtRest ==
    /\ cache = EmptyCache
    /\ now = 0
    /\ model_script = <<>>
    /\ tp = Idle
    /\ trace = <<>>

ParserEntry ==
    /\ pc = "split_content"
    /\ blocks = <<>>
    /\ pack = NoPack
    /\ adjust = NoAdjust
    /\ large = NoLarge
    /\ sent = NoSent
    /\ force = NoForce
    /\ merge_event = NoMerge

Entry == ParserEntry /\ ProcessorAtRest

\* texts over alphabet (frontmatter over FrontAlphabet) of total length at
\* most MaxLen, every configuration with 0 < min_size <= max_size <= MaxSize
InitOver(alphabet) ==
    /\ max_block_size \in 1..MaxSize
    /\ min_block_size \in 1..max_block_size
    /\ frontmatter \in Strings(FrontAlphabet, MaxLen)
    /\ main_content \in Strings(alphabet, MaxLen - Len(frontmatter))
    /\ Entry

Init == InitOver(Alphabet)

-----------------------------------------------------------------------------
(* split_content: lines 90-152 *)

\* "\n\n".join(current_block).strip() as a content block
PackedBlock(block_type, level, position, current_block) ==
    ContentBlock(block_type, level, position, strip(join(BlankLine, current_block)))

\* lines 92-108
Start ==
    /\ pc = "split_content"
    /\ LET first == IF frontmatter # <<>>
                    THEN <<ContentBlock("frontmatter", 0, 0, frontmatter)>>
                    ELSE <<>>
       IN  /\ blocks' = first
           /\ IF main_content # <<>>
              THEN /\ pack' = [paragraphs |-> Paragraphs(main_content),
                               current_block |-> <<>>,
                               current_size |-> 0,
                               current_pos |-> Len(first)]
                   /\ pc' = "pack"
              ELSE /\ pack' = pack
                   /\ pc' = "done"
    /\ UNCHANGED <<frontmatter, main_content, max_block_size, min_block_size,
                   adjust, large, sent, force, merge_event>>
    /\ UNCHANGED processor

\* one iteration of the loop of lines 110-136
PackParagraph ==
    /\ pc = "pack"
    /\ pack.paragraphs # <<>>
    /\ LET para == Head(pack.paragraphs)
           para_size == count_chars(para)
           rest == Tail(pack.paragraphs)
       IN  IF pack.current_block = <<>>
           THEN /\ pack' = [pack EXCEPT !.paragraphs = rest,
                                        !.current_block = <<para>>,
                                        !.current_size = para_size]
                /\ blocks' = blocks
           ELSE IF Fits(pack.current_size, para_size, max_block_size)
           THEN /\ pack' = [pack EXCEPT !.paragraphs = rest,
                                        !.current_block = Append(@, para),
                                        !.current_size = @ + para_size]
                /\ blocks' = blocks
           ELSE /\ blocks' = Append(blocks,
                        PackedBlock("content", 0, pack.current_pos, pack.current_block))
                /\ pack' = [pack EXCEPT !.paragraphs = rest,
                                        !.current_block = <<para>>,
                                        !.current_size = para_size,
                                        !.current_pos = @ + 1]
    /\ UNCHANGED <<frontmatter, main_content, max_block_size, min_block_size, pc,
                   adjust, large, sent, force, merge_event>>
    /\ UNCHANGED processor

\* lines 138-150 and the entry of _adjust_block_sizes, lines 163-167
\* (scans and entered are history: the scans finished, the number of blocks
\* with which the merge loop was entered)
PackFlush ==
    /\ pc = "pack"
    /\ pack.paragraphs = <<>>
    /\ LET all == IF pack.current_block # <<>>
                  THEN Append(blocks,
                           PackedBlock("content", 0, pack.current_pos, pack.current_block))
                  ELSE blocks
       IN  /\ blocks' = all
           /\ IF all = <<>>
              THEN /\ pc' = "done"
                   /\ adjust' = adjust
              ELSE /\ pc' = "adjust_split"
                   /\ adjust' = [idx |-> 1, split_blocks |-> <<>>, i |-> 0,
                                 merged_blocks |-> <<>>, merged_count |-> 0,
                                 current_block |-> Null, current_size |-> 0,
                                 scans |-> 0, entered |-> 0]
    /\ pack' = NoPack
    /\ UNCHANGED <<frontmatter, main_content, max_block_size, min_block_size,
                   large, sent, force, merge_event>>
    /\ UNCHANGED processor

-----------------------------------------------------------------------------
(* _adjust_block_sizes, first loop: lines 166-175 *)

Inputs == <<frontmatter, main_content, max_block_size, min_block_size>>

\* entry of _split_by_sentences, lines 313-338
EnterSentences(block, caller) ==
    [block |-> block, sentences |-> Sentences(block.content),
     current_block |-> <<>>, current_size |-> 0, blocks |-> <<>>,
     caller |-> caller]

\* split_blocks.extend(result) and the step to the next block
AdjustExtended(result) ==
    [adjust EXCEPT !.split_blocks = @ \o result, !.idx = @ + 1]

\* lines 174-175: a block within max_block_size is kept
AdjustKeep ==
    /\ pc = "adjust_split"
    /\ adjust.idx <= Len(blocks)
    /\ count_chars(blocks[adjust.idx].content) <= max_block_size
    /\ adjust' = AdjustExtended(<<blocks[adjust.idx]>>)
    /\ UNCHANGED <<Inputs, pc, blocks, pack, large, sent, force, merge_event>>
    /\ UNCHANGED processor

\* lines 170-173: the call of _split_large_block, lines 237-246 and 307
AdjustSplitLarge ==
    /\ pc = "adjust_split"
    /\ adjust.idx <= Len(blocks)
    /\ count_chars(blocks[adjust.idx].content) > max_block_size
    /\ LET block == blocks[adjust.idx]
           paragraphs == Paragraphs(block.content)
       IN  IF count_chars(block.content) <= max_block_size
           THEN /\ adjust' = AdjustExtended(<<block>>)
                /\ UNCHANGED <<pc, large, sent>>
           ELSE IF Len(paragraphs) > 1
           THEN /\ large' = [block |-> block, paragraphs |-> paragraphs,
                             current_block |-> <<>>, current_size |-> 0,
                             blocks |-> <<>>]
                /\ pc' = "large_para"
                /\ UNCHANGED <<adjust, sent>>
           ELSE /\ sent' = EnterSentences(block, "adjust")
                /\ pc' = "sent"
                /\ UNCHANGED <<adjust, large>>
    /\ UNCHANGED <<Inputs, blocks, pack, force, merge_event>>
    /\ UNCHANGED processor

-----------------------------------------------------------------------------
(* _split_large_block, paragraph loop: lines 248-304 *)

\* blocks.append(ContentBlock(... position=len(blocks), "\n\n".join(...)))
LargeFlushed ==
    IF large.current_block # <<>>
    THEN Append(large.blocks,
             PackedBlock(large.block.block_type, large.block.level,
                         Len(large.blocks), large.current_block))
    ELSE large.blocks

\* lines 251-277: a paragraph that alone exceeds max_size goes to
\* _split_by_sentences
LargeParagraphOversize ==
    /\ pc = "large_para"
    /\ large.paragraphs # <<>>
    /\ count_chars(Head(large.paragraphs)) > max_block_size
    /\ large' = [large EXCEPT !.paragraphs = Tail(@),
                              !.current_block = <<>>,
                              !.current_size = 0,
                              !.blocks = LargeFlushed]
    /\ sent' = EnterSentences(
                   ContentBlock(large.block.block_type, large.block.level,
                                Len(LargeFlushed), Head(large.paragraphs)),
                   "large")
    /\ pc' = "sent"
    /\ UNCHANGED <<Inputs, blocks, pack, adjust, force, merge_event>>
    /\ UNCHANGED processor

\* lines 279-293
LargeParagraphPack ==
    /\ pc = "large_para"
    /\ large.paragraphs # <<>>
    /\ count_chars(Head(large.paragraphs)) <= max_block_size
    /\ LET para == Head(large.paragraphs)
           para_size == count_chars(para)
       IN  IF Fits(large.current_size, para_size, max_block_size)
           THEN large' = [large EXCEPT !.paragraphs = Tail(@),
                                       !.current_block = Append(@, para),
                                       !.current_size = @ + para_size]
           ELSE large' = [large EXCEPT !.paragraphs = Tail(@),
                                       !.current_block = <<para>>,
                                       !.current_size = para_size,
                                       !.blocks = LargeFlushed]
    /\ UNCHANGED <<Inputs, pc, blocks, pack, adjust, sent, force, merge_event>>
    /\ UNCHANGED processor

\* lines 295-304 and the return to line 171
LargeFlush ==
    /\ pc = "large_para"
    /\ large.paragraphs = <<>>
    /\ adjust' = AdjustExtended(LargeFlushed)
    /\ large' = NoLarge
    /\ pc' = "adjust_split"
    /\ UNCHANGED <<Inputs, blocks, pack, sent, force, merge_event>>
    /\ UNCHANGED processor

-----------------------------------------------------------------------------
(* _split_by_sentences, sentence loop: lines 340-395 *)

\* "".join(current_block).strip() appended as a block
SentFlushed ==
    IF sent.current_block # <<>>
    THEN Append(sent.blocks,
             ContentBlock(sent.block.block_type, sent.block.level,
                          Len(sent.blocks), strip(join(<<>>, sent.current_block))))
    ELSE sent.blocks

\* lines 342-367: a sentence that alone exceeds max_size goes to
\* _force_split_block (lines 401-404)
SentenceOversize ==
    /\ pc = "sent"
    /\ sent.sentences # <<>>
    /\ count_chars(Head(sent.sentences)) > max_block_size
    /\ sent' = [sent EXCEPT !.sentences = Tail(@),
                            !.current_block = <<>>,
                            !.current_size = 0,
                            !.blocks = SentFlushed]
    /\ force' = [block |-> ContentBlock(sent.block.block_type, sent.block.level,
                                        Len(SentFlushed), Head(sent.sentences)),
                 remaining |-> Head(sent.sentences),
                 blocks |-> <<>>,
                 current_pos |-> Len(SentFlushed)]
    /\ pc' = "force"
    /\ UNCHANGED <<Inputs, blocks, pack, adjust, large, merge_event>>
    /\ UNCHANGED processor

\* lines 369-383
SentencePack ==
    /\ pc = "sent"
    /\ sent.sentences # <<>>
    /\ count_chars(Head(sent.sentences)) <= max_block_size
    /\ LET sentence == Head(sent.sentences)
           sent_size == count_chars(sentence)
       IN  IF Fits(sent.current_size, sent_size, max_block_size)
           THEN sent' = [sent EXCEPT !.sentences = Tail(@),
                                     !.current_block = Append(@, sentence),
                                     !.current_size = @ + sent_size]
           ELSE sent' = [sent EXCEPT !.sentences = Tail(@),
                                     !.current_block = <<sentence>>,
                                     !.current_size = sent_size,
                                     !.blocks = SentFlushed]
    /\ UNCHANGED <<Inputs, pc, blocks, pack, adjust, large, force, merge_event>>
    /\ UNCHANGED processor

\* lines 385-395 and the return to the caller (line 266 or line 307/171)
SentenceFlush ==
    /\ pc = "sent"
    /\ sent.sentences = <<>>
    /\ IF sent.caller = "large"
       THEN /\ large' = [large EXCEPT !.blocks = @ \o SentFlushed]
            /\ pc' = "large_para"
            /\ adjust' = adjust
       ELSE /\ adjust' = AdjustExtended(SentFlushed)
            /\ pc' = "adjust_split"
            /\ large' = large
    /\ sent' = NoSent
    /\ UNCHANGED <<Inputs, blocks, pack, force, merge_event>>
    /\ UNCHANGED processor

-----------------------------------------------------------------------------
(* _force_split_block: lines 406-431 *)

\* one iteration of the while loop, lines 406-429
ForceSlice ==
    /\ pc = "force"
    /\ force.remaining # <<>>
    /\ LET length == SliceLength(force.remaining, max_block_size)
           slice == [ContentBlock(force.block.block_type, force.block.level,
                                  force.current_pos,
                                  strip(SubSeq(force.remaining, 1, length)))
                     EXCEPT !.sliced = TRUE]
       IN  force' = [force EXCEPT !.blocks = Append(@, slice),
                                  !.remaining = RestAfterSlice(force.remaining, length),
                                  !.current_pos = @ + 1]
    /\ UNCHANGED <<Inputs, pc, blocks, pack, adjust, large, sent, merge_event>>
    /\ UNCHANGED processor

\* line 431 and blocks.extend at line 356
ForceReturn ==
    /\ pc = "force"
    /\ force.remaining = <<>>
    /\ sent' = [sent EXCEPT !.blocks = @ \o force.blocks]
    /\ force' = NoForce
    /\ pc' = "sent"
    /\ UNCHANGED <<Inputs, blocks, pack, adjust, large, merge_event>>
    /\ UNCHANGED processor

-----------------------------------------------------------------------------
(* _adjust_block_sizes, merge loop: lines 177-231 *)

\* lines 179-181, entered when the first loop is over
AdjustMergeStart ==
    /\ pc = "adjust_split"
    /\ adjust.idx > Len(blocks)
    /\ adjust' = [adjust EXCEPT !.merged_blocks = <<>>, !.i = 0,
                                !.merged_count = 0,
                                !.entered = Len(adjust.split_blocks)]
    /\ pc' = "scan"
    /\ UNCHANGED <<Inputs, blocks, pack, large, sent, force, merge_event>>
    /\ UNCHANGED processor

\* lines 183-185
ScanLoad ==
    /\ pc = "scan"
    /\ adjust.i < Len(adjust.split_blocks)
    /\ adjust' = [adjust EXCEPT
                    !.current_block = adjust.split_blocks[adjust.i + 1],
                    !.current_size =
                        count_chars(adjust.split_blocks[adjust.i + 1].content)]
    /\ pc' = "merge"
    /\ UNCHANGED <<Inputs, blocks, pack, large, sent, force, merge_event>>
    /\ UNCHANGED processor

HasNext == adjust.i + 1 < Len(adjust.split_blocks)
next_block == adjust.split_blocks[adjust.i + 2]
combined_size == adjust.current_size + count_chars(next_block.content)

\* mutant: a merge counts the next block but leaves out its content
Merged_DropsNext(is_forced) ==
    [adjust EXCEPT
        !.current_block =
            [block_type |-> adjust.current_block.block_type,
             level |-> Min(adjust.current_block.level, next_block.level),
             position |-> Len(adjust.merged_blocks),
             content |-> adjust.current_block.content,
             sliced |-> adjust.current_block.sliced \/ next_block.sliced,
             merged |-> TRUE,
             forced |-> adjust.current_block.forced \/ next_block.forced
                            \/ is_forced],
        !.current_size = combined_size,
        !.i = @ + 1,
        !.merged_count = @ + 1]

\* mutant: a merge does not step over the block it has absorbed
Merged_KeepsNext(is_forced) ==
    [adjust EXCEPT
        !.current_block =
            [block_type |-> adjust.current_block.block_type,
             level |-> Min(adjust.current_block.level, next_block.level),
             position |-> Len(adjust.merged_blocks),
             content |-> adjust.current_block.content \o BlankLine
                            \o next_block.content,
             sliced |-> adjust.current_block.sliced \/ next_block.sliced,
             merged |-> TRUE,
             forced |-> adjust.current_block.forced \/ next_block.forced
                            \/ is_forced],
        !.current_size = combined_size,
        !.merged_count = @ + 1]

\* lines 196-204 and 207-215: current_block replaced by the merged block
Merged(is_forced) ==
    [adjust EXCEPT
        !.current_block =
            [block_type |-> adjust.current_block.block_type,
             level |-> Min(adjust.current_block.level, next_block.level),
             position |-> Len(adjust.merged_blocks),
             content |-> adjust.current_block.content \o BlankLine
                            \o next_block.content,
             sliced |-> adjust.current_block.sliced \/ next_block.sliced,
             merged |-> TRUE,
             forced |-> adjust.current_block.forced \/ next_block.forced
                            \/ is_forced],
        !.current_size = combined_size,
        !.i = @ + 1,
        !.merged_count = @ + 1]

MergeEvent(kind) ==
    [kind |-> kind, running |-> adjust.current_size,
     actual |-> count_chars(adjust.current_block.content),
     combined |-> combined_size]

\* lines 188-204: merge within the 20% tolerance
MergeTolerance ==
    /\ pc = "merge"
    /\ HasNext
    /\ WithinTolerance(combined_size)
    /\ adjust' = Merged(FALSE)
    /\ merge_event' = MergeEvent("tolerance")
    /\ UNCHANGED <<Inputs, pc, blocks, pack, large, sent, force>>
    /\ UNCHANGED processor

\* lines 205-215: forced merge of a block that is too small
MergeForced ==
    /\ pc = "merge"
    /\ HasNext
    /\ ~WithinTolerance(combined_size)
    /\ Undersized(adjust.current_size)
    /\ adjust' = Merged(TRUE)
    /\ merge_event' = MergeEvent("forced")
    /\ UNCHANGED <<Inputs, pc, blocks, pack, large, sent, force>>
    /\ UNCHANGED processor

\* lines 216-220: no successor, or neither rule applies
MergeEmit ==
    /\ pc = "merge"
    /\ ~(HasNext /\ (WithinTolerance(combined_size)
                       \/ Undersized(adjust.current_size)))
    /\ adjust' = [adjust EXCEPT !.merged_blocks = Append(@, adjust.current_block),
                                !.i = @ + 1]
    /\ pc' = "scan"
    /\ UNCHANGED <<Inputs, blocks, pack, large, sent, force, merge_event>>
    /\ UNCHANGED processor

\* lines 222-231: positions rewritten; return when the scan merged nothing,
\* else another scan over merged_blocks
ScanEnd ==
    /\ pc = "scan"
    /\ adjust.i >= Len(adjust.split_blocks)
    /\ LET merged_blocks == Renumber(adjust.merged_blocks, 0)
       IN  IF NoMergeInScan(adjust.merged_count)
           THEN /\ blocks' = merged_blocks
                /\ adjust' = [adjust EXCEPT !.merged_blocks = merged_blocks,
                                            !.scans = @ + 1]
                /\ pc' = "done"
           ELSE /\ adjust' = [adjust EXCEPT !.split_blocks = merged_blocks,
                                            !.merged_blocks = <<>>,
                                            !.i = 0,
                                            !.merged_count = 0,
                                            !.scans = @ + 1]
                /\ pc' = "scan"
                /\ blocks' = blocks
    /\ UNCHANGED <<Inputs, pack, large, sent, force, merge_event>>
    /\ UNCHANGED processor

-----------------------------------------------------------------------------

Next ==
    \/ Start
    \/ PackParagraph
    \/ PackFlush
    \/ AdjustKeep
    \/ AdjustSplitLarge
    \/ LargeParagraphOversize
    \/ LargeParagraphPack
    \/ LargeFlush
    \/ SentenceOversize
    \/ SentencePack
    \/ SentenceFlush
    \/ ForceSlice
    \/ ForceReturn
    \/ AdjustMergeStart
    \/ ScanLoad
    \/ MergeTolerance
    \/ MergeForced
    \/ MergeEmit
    \/ ScanEnd

Spec == Init /\ [][Next]_vars

\* the interpreter runs the single thread until split_content returns:
\* the next step is always taken.  Texts of letters, ideographs and line
\* feeds drive every loop (paragraphs, sentences, slices, merge scans).
InitLoops == InitOver(LoopAlphabet)
FairSpec == InitLoops /\ [][Next]_vars /\ WF_vars(Next)

\* the same program over texts that hold Markdown header marks
InitHeaders == InitOver(HeaderAlphabet)
SpecHeaders == InitHeaders /\ [][Next]_vars

\* the same program under any configuration, degenerate ones included
InitAnyConfig ==
    /\ max_block_size \in 0..MaxSize
    /\ min_block_size \in 1..(MaxSize + 1)
    /\ frontmatter \in Strings(FrontAlphabet, MaxLen)
    /\ main_content \in Strings(PlainAlphabet, MaxLen - Len(frontmatter))
    /\ Entry
SpecAnyConfig == InitAnyConfig /\ [][Next]_vars

\* the same program over texts that hold sentence terminators of both
\* kinds and spaces
InitStops == InitOver(StopAlphabet)
SpecStops == InitStops /\ [][Next]_vars

\* the packing scenario of three equal paragraphs (1200, 1200, 1200 under
\* max_size 3000 and min_size 2000) at a scale of 1:300.  The blank line
\* between two paragraphs keeps its weight of 2, so the comparison that
\* decides the merge has the margin it has at full scale:
\* 10 * (3w + 2) - 12 * (5w / 2) = 20 for every paragraph weight w.
ScenarioParagraphSize == 1200 \div 300
ScenarioMaxSize == 3000 \div 300
ScenarioMinSize == 2000 \div 300
ScenarioAlphabet == {"a", HAN, SP}

\* the paragraphs of the scenario: every text of the scenario's weight that
\* the paragraph filter of line 105 keeps
ScenarioParagraphs ==
    {p \in Strings(ScenarioAlphabet, ScenarioParagraphSize) :
        count_chars(p) = ScenarioParagraphSize /\ strip(p) # <<>>}

InitScenario ==
    /\ max_block_size = ScenarioMaxSize
    /\ min_block_size = ScenarioMinSize
    /\ frontmatter = <<>>
    /\ \E p1 \in ScenarioParagraphs, p2 \in ScenarioParagraphs,
          p3 \in ScenarioParagraphs :
          main_content = join(BlankLine, <<p1, p2, p3>>)
    /\ Entry

\* the program on the scenario's texts and on the texts of Init
SpecScenario == (Init \/ InitScenario) /\ [][Next]_vars


\* paragraphs without whitespace at their ends: a letter, an ideograph, two
\* lines of one letter (weights 1, 2 and 3)
WholeParagraphs == {<<"a">>, <<HAN>>, <<"a", NL, "a">>}

\* a mainmatter of one to MaxParagraphs such paragraphs, each two separated
\* by exactly one blank line, and no frontmatter
InitPacking ==
    /\ max_block_size \in 1..MaxSize
    /\ min_block_size \in 1..max_block_size
    /\ frontmatter = <<>>
    /\ \E n \in 1..MaxParagraphs : \E paragraphs \in [1..n -> WholeParagraphs] :
          main_content = join(BlankLine, paragraphs)
    /\ Entry

\* the program on these mainmatters and on the texts of Init
SpecPacking == (Init \/ InitPacking) /\ [][Next]_vars

-----------------------------------------------------------------------------
(* TextProcessor.process_block: lines 231-282 *)

ParserVars == <<frontmatter, main_content, max_block_size, min_block_size, pc,
                blocks, pack, adjust, large, sent, force, merge_event>>

\* lines 241-248: the cache is asked first; a hit is returned as it is
LookupCache ==
    /\ tp.pc = "process_block"
    /\ LET cache_key == CacheKey(tp.block)
           cached_data == CacheValue(cache_key)
       IN  /\ cache' = CacheAfterGet(cache_key)
           /\ IF cached_data # Null
              THEN tp' = [tp EXCEPT !.result = from_dict(cached_data),
                                    !.pc = "returned"]
              ELSE tp' = [tp EXCEPT !.pc = "call_model"]
    /\ UNCHANGED <<ParserVars, now, model_script, trace>>

\* the outcome of the next invocation of generate_content_async
NextOutcome == IF model_script = <<>> THEN DefaultOutcome ELSE Head(model_script)

\* _call_model, lines 86-111: a timeout is raised again, any other exception
\* and an empty response give None, a text is stripped
ModelAnswer(outcome) ==
    IF outcome.kind = "timeout" THEN [kind |-> "raised"]
    ELSE IF outcome.kind = "raise" THEN [kind |-> "none"]
    ELSE IF outcome.text = <<>> THEN [kind |-> "none"]
    ELSE [kind |-> "text", text |-> strip(outcome.text)]

\* line 263: the one call of _call_model
CallModel ==
    /\ tp.pc = "call_model"
    /\ tp' = [tp EXCEPT !.response = ModelAnswer(NextOutcome),
                        !.calls = @ + 1,
                        !.pc = "after_model"]
    /\ model_script' = IF model_script = <<>> THEN <<>> ELSE Tail(model_script)
    /\ UNCHANGED <<ParserVars, cache, now, trace>>

\* not processed_content (line 264), or an exception caught at line 280
NoContent(response) ==
    \/ response.kind \in {"none", "raised"}
    \/ response.kind = "text" /\ response.text = <<>>

\* lines 264-265 and 280-282: process_block returns None
ProcessBlockFails ==
    /\ tp.pc = "after_model"
    /\ NoContent(tp.response)
    /\ tp' = [tp EXCEPT !.result = Null, !.pc = "returned"]
    /\ UNCHANGED <<ParserVars, cache, now, model_script, trace>>

\* lines 267-278: the new block is built, cached and returned
ProcessBlockStores ==
    /\ tp.pc = "after_model"
    /\ ~NoContent(tp.response)
    /\ LET processed_block ==
               ContentBlock(tp.block.block_type, tp.block.level,
                            tp.block.position, tp.response.text)
       IN  /\ cache' = CacheAfterSet(cache, CacheKey(tp.block),
                                     to_dict(processed_block))
           /\ tp' = [tp EXCEPT !.result = processed_block, !.pc = "returned"]
    /\ UNCHANGED <<ParserVars, now, model_script, trace>>

-----------------------------------------------------------------------------
(* TextProcessor.merge_blocks: lines 366-381 *)

\* list.sort(key=lambda x: x.position): a stable sort
RECURSIVE InsertByPosition(_, _)
InsertByPosition(sorted, block) ==
    IF sorted = <<>> THEN <<block>>
    ELSE IF Head(sorted).position <= block.position
    THEN <<Head(sorted)>> \o InsertByPosition(Tail(sorted), block)
    ELSE <<block>> \o sorted

RECURSIVE SortByPosition(_)
SortByPosition(list) ==
    IF list = <<>> THEN <<>>
    ELSE InsertByPosition(SortByPosition(SubSeq(list, 1, Len(list) - 1)),
                          list[Len(list)])

\* [block.content for block in blocks]
RECURSIVE ContentsOf(_)
ContentsOf(list) ==
    IF list = <<>> THEN <<>> ELSE <<Head(list).content>> \o ContentsOf(Tail(list))

\* the fields of the dataclass Document; none has a default
DocumentFields == {"metadata", "blocks", "raw_content"}

\* Document(**kwargs): the generated __init__ raises a TypeError when a
\* field without default is not given
NewDocument(kwargs) ==
    IF DocumentFields \subseteq DOMAIN kwargs
    THEN kwargs
    ELSE [raised |-> "TypeError"]

\* lines 376-381; the sort is in place and the list stays sorted whatever
\* comes next
MergeBlocks ==
    /\ tp.pc = "merge_blocks"
    /\ LET sorted == SortByPosition(tp.list)
           content == join(BlankLine, ContentsOf(sorted))
       IN  tp' = [tp EXCEPT !.list = sorted,
                            !.result = NewDocument([blocks |-> sorted,
                                                    raw_content |-> content]),
                            !.pc = "merged"]
    /\ UNCHANGED <<ParserVars, cache, now, model_script, trace>>

-----------------------------------------------------------------------------
(* The callers of the TextProcessor, the clock and the cache directory *)

InputContents == {<<"a">>, <<HAN, DOT>>}

\* the blocks handed to process_block and merge_blocks
InputBlocks ==
    {ContentBlock(block_type, level, position, content) :
        block_type \in {"frontmatter", "content"}, level \in {0},
        position \in 0..MaxPosition, content \in InputContents}

\* the lists handed to merge_blocks
InputLists == UNION {[1..n -> InputBlocks] : n \in 0..MaxCalls}

CallCount == Cardinality({i \in DOMAIN trace : trace[i].kind = "call"})

\* the outcomes of an invocation: an exception, a timeout, no text, blank
\* text, a text
Outcomes ==
    {Raises, TimesOut, Responds(<<>>), Responds(<<SP>>), Responds(<<SP, "s">>)}

\* the model raises or times out a number of times, then answers
Scripts ==
    {script \in UNION {[1..n -> Outcomes] : n \in 0..MaxScript} :
        \A i \in 1..(Len(script) - 1) : script[i] \in {Raises, TimesOut}}

\* a caller awaits process_block(block); script is what the model will
\* answer to the invocations made on its behalf
CallProcessBlock ==
    /\ tp.pc = "idle"
    /\ CallCount < MaxCalls
    /\ \E block \in InputBlocks, script \in Scripts :
          /\ tp' = [Idle EXCEPT !.pc = "process_block", !.caller = "call",
                                !.block = block, !.script = script]
          /\ model_script' = script
    /\ UNCHANGED <<ParserVars, cache, now, trace>>

\* process_block returns to that caller
ReturnToCaller ==
    /\ tp.pc = "returned"
    /\ tp.caller = "call"
    /\ trace' = Append(trace, [kind |-> "call", block |-> tp.block,
                               result |-> tp.result, calls |-> tp.calls,
                               at |-> now])
    /\ tp' = Idle
    /\ model_script' = <<>>
    /\ UNCHANGED <<ParserVars, cache, now>>

\* a caller calls merge_blocks(list)
CallMergeBlocks ==
    /\ tp.pc = "idle"
    /\ \E list \in InputLists :
          tp' = [Idle EXCEPT !.pc = "merge_blocks", !.caller = "call",
                             !.list = list]
    /\ UNCHANGED <<ParserVars, cache, now, model_script, trace>>

\* merge_blocks returns or raises to that caller
ReturnMerge ==
    /\ tp.pc = "merged"
    /\ tp' = Idle
    /\ UNCHANGED <<ParserVars, cache, now, model_script, trace>>

\* time passes between two calls: the life of a cache entry, then a day
\* at a time
Tick ==
    /\ tp.pc = "idle"
    /\ now < MaxClock
    /\ now' = IF now < ExpireDays THEN ExpireDays ELSE now + 1
    /\ UNCHANGED <<ParserVars, cache, model_script, tp, trace>>

\* Cache.clear, lines 79-100: one file or all files are removed
ClearCache ==
    /\ tp.pc = "idle"
    /\ cache # EmptyCache
    /\ \E removed \in {DOMAIN cache} \cup {{key} : key \in DOMAIN cache} :
          cache' = [key \in DOMAIN cache \ removed |-> cache[key]]
    /\ trace' = Append(trace, [kind |-> "clear"])
    /\ UNCHANGED <<ParserVars, now, model_script, tp>>

\* a TextProcessor with an empty cache directory; split_content is not
\* running
InitProcessor ==
    /\ frontmatter = <<>>
    /\ main_content = <<>>
    /\ max_block_size = 1
    /\ min_block_size = 1
    /\ ParserEntry
    /\ cache = EmptyCache
    /\ now = 0
    /\ model_script = <<>>
    /\ tp = Idle
    /\ trace = <<>>

\* callers of process_block, one call after the other
NextProcessor ==
    \/ CallProcessBlock
    \/ LookupCache
    \/ CallModel
    \/ ProcessBlockFails
    \/ ProcessBlockStores
    \/ ReturnToCaller
    \/ Tick
    \/ ClearCache

SpecProcessor == InitProcessor /\ [][NextProcessor]_vars

\* callers of merge_blocks
NextMerge ==
    \/ CallMergeBlocks
    \/ MergeBlocks
    \/ ReturnMerge

SpecMerge == InitProcessor /\ [][NextMerge]_vars

-----------------------------------------------------------------------------
(* TextProcessor.process_document: lines 284-364, called on the document   *)
(* that parse_document builds from the list split_content returned         *)

\* next(block for block in blocks if block.block_type == "frontmatter"),
\* None when there is none
FirstFrontmatter(list) ==
    LET found == SelectSeq(list, LAMBDA b : b.block_type = "frontmatter")
    IN  IF found = <<>> THEN Null ELSE Head(found)

\* [b for b in document.blocks if b.block_type != "frontmatter"]
ContentBlocksOf(list) == SelectSeq(list, LAMBDA b : b.block_type # "frontmatter")

\* the frame of a process_block call made by process_document
Awaiting(caller, block) ==
    [tp EXCEPT !.pc = "process_block", !.caller = caller, !.block = block]

\* process_block returned to process_document, which kept one block
Resumed(kept) ==
    [Idle EXCEPT !.pc = "content_loop", !.caller = "document",
                 !.doc = [tp.doc EXCEPT !.processed_blocks = Append(@, kept)]]

\* what the model answers to the one invocation process_block makes
FirstAnswers == {script \in Scripts : Len(script) <= 1}

\* lines 293-300 and 328
ProcessDocument ==
    /\ pc = "done"
    /\ tp.pc = "idle"
    /\ trace = <<>>
    /\ tp' = [Idle EXCEPT
                !.pc = IF FirstFrontmatter(blocks) # Null
                       THEN "extract_metadata" ELSE "content_loop",
                !.caller = "document",
                !.doc = [blocks |-> blocks,
                         frontmatter |-> FirstFrontmatter(blocks),
                         content_blocks |-> ContentBlocksOf(blocks),
                         processed_blocks |-> <<>>]]
    /\ trace' = <<[kind |-> "document"]>>
    /\ UNCHANGED <<ParserVars, cache, now, model_script>>

\* lines 306-314: _extract_metadata (lines 128-168) invokes the model once
\* and swallows every failure; the texts of the model hold no JSON field, so
\* document.metadata stays the empty Metadata().  Then process_block is
\* awaited on the frontmatter block.
ExtractMetadata ==
    /\ tp.pc = "extract_metadata"
    /\ \E script \in FirstAnswers :
          /\ tp' = [Awaiting("frontmatter", tp.doc.frontmatter)
                       EXCEPT !.script = script]
          /\ model_script' = script
    /\ UNCHANGED <<ParserVars, cache, now, trace>>

\* mutant: a block whose rewrite failed is kept without its content
Kept_Emptied(result, original) ==
    IF result # Null THEN result ELSE [original EXCEPT !.content = <<>>]

\* the block process_document keeps: the processed one, else the original
Kept(result, original) == IF result # Null THEN result ELSE original

\* history: the rewrite of block failed and process_document went on
Noted(result, block) ==
    IF result = Null THEN Append(trace, [kind |-> "failed", block |-> block])
    ELSE trace

\* lines 315-320
AppendFrontmatter ==
    /\ tp.pc = "returned"
    /\ tp.caller = "frontmatter"
    /\ tp' = Resumed(Kept(tp.result, tp.block))
    /\ model_script' = <<>>
    /\ trace' = Noted(tp.result, tp.block)
    /\ UNCHANGED <<ParserVars, cache, now>>

\* lines 331-334: the next content block goes to process_block
ProcessNextContent ==
    /\ tp.pc = "content_loop"
    /\ tp.doc.content_blocks # <<>>
    /\ \E script \in FirstAnswers :
          /\ tp' = [Awaiting("content", Head(tp.doc.content_blocks))
                       EXCEPT !.script = script]
          /\ model_script' = script
    /\ UNCHANGED <<ParserVars, cache, now, trace>>

\* lines 335-340
AppendContent ==
    /\ tp.pc = "returned"
    /\ tp.caller = "content"
    /\ tp' = [Resumed(Kept(tp.result, tp.block))
                 EXCEPT !.doc.content_blocks = Tail(@)]
    /\ model_script' = <<>>
    /\ trace' = Noted(tp.result, tp.block)
    /\ UNCHANGED <<ParserVars, cache, now>>

\* lines 346-364: sort by position, document.blocks = processed_blocks
FinishDocument ==
    /\ tp.pc = "content_loop"
    /\ tp.doc.content_blocks = <<>>
    /\ tp' = [tp EXCEPT
                !.doc.blocks = SortByPosition(tp.doc.processed_blocks),
                !.pc = "document_done"]
    /\ UNCHANGED <<ParserVars, cache, now, model_script, trace>>

NextDocument ==
    \/ ProcessDocument
    \/ ExtractMetadata
    \/ AppendFrontmatter
    \/ ProcessNextContent
    \/ AppendContent
    \/ FinishDocument
    \/ LookupCache
    \/ CallModel
    \/ ProcessBlockFails
    \/ ProcessBlockStores

\* parse_document then process_document, on texts of letters and line feeds
InitPipeline == InitOver(PlainAlphabet)
SpecPipeline == InitPipeline /\ [][Next \/ NextDocument]_vars

-----------------------------------------------------------------------------
(* Vocabulary of the properties *)

Done == pc = "done"

\* the list was returned by _adjust_block_sizes (mainmatter not empty)
Adjusted == Done /\ adjust # NoAdjust

ValidConfig == 0 < min_block_size /\ min_block_size <= max_block_size

NonWhitespace(text) == SelectSeq(text, LAMBDA char : ~IsSpace(char))

RECURSIVE Contents(_)
Contents(list) ==
    IF list = <<>> THEN <<>> ELSE Head(list).content \o Contents(Tail(list))

RECURSIVE SumSizes(_)
SumSizes(parts) ==
    IF parts = <<>> THEN 0 ELSE count_chars(Head(parts)) + SumSizes(Tail(parts))

\* weighted size of a content without its blank-line separators
ParagraphWeight(content) == SumSizes(SplitBlank(content, <<>>))

HasBlankLine(content) == Len(SplitBlank(content, <<>>)) > 1

BlockIndexes == 1..Len(blocks)

-----------------------------------------------------------------------------
(* Properties *)

\* C1: the non-whitespace characters of the returned blocks, read in list
\* (= position) order, are exactly those of frontmatter followed by
\* mainmatter: nothing lost, duplicated or reordered.
C1_ContentPreserved ==
    Done => NonWhitespace(Contents(blocks))
                = NonWhitespace(frontmatter) \o NonWhitespace(main_content)

\* a run with a frontmatter in which forced slicing and a merge both
\* happened and whitespace was dropped
C1_Witness ==
    /\ Done
    /\ frontmatter # <<>>
    /\ \E i \in BlockIndexes : blocks[i].sliced
    /\ \E i \in BlockIndexes : blocks[i].merged
    /\ Len(NonWhitespace(main_content)) < Len(main_content)

C3_PositionsContiguous ==
    Done => \A i \in BlockIndexes : blocks[i].position = i - 1

\* a returned list of three or more blocks that starts with a frontmatter
\* block, after a split and a merge
C3_Witness ==
    /\ Done
    /\ Len(blocks) >= 3
    /\ blocks[1].block_type = "frontmatter"
    /\ \E i \in BlockIndexes : blocks[i].sliced
    /\ \E i \in BlockIndexes : blocks[i].merged

\* C4: in the list returned by the merge pass no adjacent pair is
\* mergeable on the actual contents: for every block A with a successor B,
\* size(A) + size(B) > 1.2 * max_size and size(A) >= min_size.
C4_MergeFixpoint ==
    Adjusted => \A i \in 1..(Len(blocks) - 1) :
        /\ 10 * (count_chars(blocks[i].content) + count_chars(blocks[i + 1].content))
              > 12 * max_block_size
        /\ count_chars(blocks[i].content) >= min_block_size

\* the merge pass merged, needed a second scan and returned several blocks
C4_Witness ==
    /\ Adjusted
    /\ adjust.scans >= 2
    /\ Len(blocks) >= 2

\* C5: under every configuration 0 < min_size <= max_size split_content
\* returns; every forced slice consumes at least one character and every
\* scan that merged leaves fewer blocks.
SliceConsumes ==
    (pc = "force" /\ pc' = "force")
        => Len(force'.remaining) < Len(force.remaining)

ScanShrinks ==
    (pc = "scan" /\ pc' = "scan" /\ adjust'.scans = adjust.scans + 1)
        => Len(adjust'.split_blocks) < Len(adjust.split_blocks)

C5_Terminates ==
    /\ <>Done
    /\ [][SliceConsumes]_vars
    /\ [][ScanShrinks]_vars

\* split_content returned under max_size = 1 a forced slice that is a
\* single ideograph of weight 2
C5_Witness ==
    /\ Done
    /\ max_block_size = 1
    /\ \E i \in BlockIndexes :
          blocks[i].sliced /\ blocks[i].content = <<HAN>>

\* C6: under max_size <= 0 or min_size > max_size split_content rejects the
\* call: it produces no block and does not return a list.
C6_RejectsDegenerate ==
    ~ValidConfig => (blocks = <<>> /\ ~Done)

\* C7: at most one returned block is of type frontmatter, and it is the
\* first.
C7_SingleFrontmatter ==
    Done => /\ Cardinality({i \in BlockIndexes :
                               blocks[i].block_type = "frontmatter"}) <= 1
            /\ \A i \in BlockIndexes :
                   blocks[i].block_type = "frontmatter" => i = 1

\* C8: a non-empty frontmatter is returned as block 0, of type frontmatter
\* and level 0, its content the frontmatter string itself, and every other
\* block is of type content.
C8_DedicatedFrontmatter ==
    (Done /\ frontmatter # <<>>) =>
        /\ Len(blocks) >= 1
        /\ blocks[1].block_type = "frontmatter"
        /\ blocks[1].level = 0
        /\ blocks[1].position = 0
        /\ blocks[1].content = frontmatter
        /\ \A i \in 2..Len(blocks) : blocks[i].block_type = "content"

\* number of leading header marks of a content
RECURSIVE LeadingHashes(_)
LeadingHashes(content) ==
    IF content # <<>> /\ Head(content) = HASH
    THEN 1 + LeadingHashes(Tail(content))
    ELSE 0

\* depth of the Markdown header that opens a content (1 to 6 marks and a
\* space), 0 when it opens with none
HeaderLevel(content) ==
    LET n == LeadingHashes(content)
    IN  IF n \in 1..6 /\ Len(content) > n /\ content[n + 1] = SP THEN n ELSE 0

\* C9: the level of every returned content block is the depth of the header
\* that opens its content, 0 when it opens with none.
C9_LevelIsHeaderDepth ==
    Done => \A i \in BlockIndexes :
                blocks[i].block_type = "content"
                    => blocks[i].level = HeaderLevel(blocks[i].content)

\* C10: at every forced merge the actual content of the left block weighs
\* less than min_size.
C10_ForcedOnlyUndersized ==
    merge_event.kind = "forced" => merge_event.actual < min_block_size

\* the pieces of the mainmatter between blank lines
MainPieces == SplitBlank(main_content, <<>>)

\* the input of the scenario: no frontmatter, three blank-line-separated
\* paragraphs of the scenario's weight, the scenario's max_size and min_size
IsScenario ==
    /\ frontmatter = <<>>
    /\ max_block_size = ScenarioMaxSize
    /\ min_block_size = ScenarioMinSize
    /\ Len(MainPieces) = 3
    /\ \A i \in 1..3 : /\ count_chars(MainPieces[i]) = ScenarioParagraphSize
                       /\ strip(MainPieces[i]) # <<>>

\* two content blocks: the first two paragraphs, then the third alone and
\* smaller than min_size (contents compared as the packer strips them)
TwoThenOne ==
    /\ Len(blocks) = 2
    /\ \A i \in 1..2 : blocks[i].block_type = "content"
    /\ blocks[1].content
          = strip(MainPieces[1] \o BlankLine \o MainPieces[2])
    /\ blocks[2].content = strip(MainPieces[3])
    /\ count_chars(blocks[2].content) < min_block_size

\* no paragraph begins or ends with whitespace
NoEdgeWhitespace == \A i \in 1..3 : strip(MainPieces[i]) = MainPieces[i]

\* C11 as stated: on three paragraphs of weight 1200 each under max_size
\* 3000 and min_size 2000 (at scale) split_content returns exactly two
\* content blocks, the first two paragraphs and then the third alone, which
\* stays below min_size.
C11_TwoThenOne == (Done /\ IsScenario) => TwoThenOne

\* C11 amended: the same, for paragraphs that neither begin nor end with
\* whitespace.
C11_TwoThenOneAmended == (Done /\ IsScenario /\ NoEdgeWhitespace) => TwoThenOne

\* the scenario returned its two blocks, on paragraphs that hold an
\* ideograph and whitespace inside
C11_Witness ==
    /\ Done
    /\ IsScenario
    /\ NoEdgeWhitespace
    /\ TwoThenOne
    /\ \E k \in 2..(Len(MainPieces[1]) - 1) : MainPieces[1][k] = SP
    /\ \E k \in DOMAIN MainPieces[3] : MainPieces[3][k] = HAN

\* the text holds no sentence terminator
NoTerminator(text) ==
    \A k \in DOMAIN text : text[k] \notin (ChineseTerminators \cup LatinTerminators)

\* the input of C12: one paragraph without sentence terminator that, edge
\* whitespace stripped, weighs more than max_size >= 2
UnbrokenParagraph ==
    /\ frontmatter = <<>>
    /\ Len(MainPieces) = 1
    /\ NoTerminator(main_content)
    /\ max_block_size >= 2
    /\ count_chars(strip(main_content)) > max_block_size

\* _force_split_block is about to return force.blocks
ForceReturned == pc = "force" /\ force.remaining = <<>>

Slice(i) == force.blocks[i].content

\* first index at or after k of a character that is not whitespace
RECURSIVE SkipSpace(_, _)
SkipSpace(text, k) ==
    IF k <= Len(text) /\ IsSpace(text[k]) THEN SkipSpace(text, k + 1) ELSE k

\* index in text at which slice i starts when the slices follow one another
\* with only whitespace between them
RECURSIVE SliceStart(_, _)
SliceStart(text, i) ==
    IF i = 1 THEN 1
    ELSE SkipSpace(text, SliceStart(text, i - 1) + Len(Slice(i - 1)))

\* weight of the whitespace between slice i and slice i + 1
Dropped(text, i) == SliceStart(text, i + 1) - SliceStart(text, i) - Len(Slice(i))

\* the slices are consecutive pieces of text, whitespace alone between them
Consecutive(text) ==
    /\ force.blocks # <<>>
    /\ \A i \in DOMAIN force.blocks :
          SubSeq(text, SliceStart(text, i), SliceStart(text, i) + Len(Slice(i)) - 1)
              = Slice(i)
    /\ SliceStart(text, Len(force.blocks)) + Len(Slice(Len(force.blocks))) - 1
          = Len(text)

WithinMax == \A i \in DOMAIN force.blocks : count_chars(Slice(i)) <= max_block_size

\* n unit-weight characters without whitespace give ceil(n / max_size) slices
UnitWeight(text) == \A k \in DOMAIN text : CharWeight(text[k]) = 1 /\ ~IsSpace(text[k])

SliceCount(text) ==
    UnitWeight(text) =>
        /\ Len(force.blocks) * max_block_size >= Len(text)
        /\ (Len(force.blocks) - 1) * max_block_size < Len(text)

\* forced slicing received the paragraph whole
ReceivedWhole ==
    (pc = "force" /\ force.blocks = <<>>) => force.remaining = strip(main_content)

ContentIndexes == {i \in BlockIndexes : blocks[i].block_type = "content"}

\* the input of C13: a mainmatter of one ideograph under max_size = min_size = 1
LoneIdeograph ==
    /\ max_block_size = 1
    /\ min_block_size = 1
    /\ main_content = <<HAN>>

\* split_content returned exactly one content block, the ideograph, of
\* weight 2
LoneIdeographReturned ==
    /\ Done
    /\ Cardinality(ContentIndexes) = 1
    /\ \A i \in ContentIndexes : /\ blocks[i].content = <<HAN>>
                                 /\ count_chars(blocks[i].content) = 2
                                 /\ count_chars(blocks[i].content) > max_block_size

\* C13: under max_size = min_size = 1 and a mainmatter of a single
\* ideograph, split_content returns, and returns exactly one content block
\* that holds the ideograph and weighs 2.
C13_LoneIdeograph == LoneIdeograph => <>LoneIdeographReturned

\* the ideograph came back alone through forced slicing, after a frontmatter
C13_Witness ==
    /\ LoneIdeograph
    /\ LoneIdeographReturned
    /\ frontmatter # <<>>
    /\ \A i \in ContentIndexes : blocks[i].sliced

\* 2 for every ideograph of the text and 1 for every other character
WeightByClass(text) ==
    2 * Cardinality({k \in DOMAIN text : text[k] = HAN})
        + Cardinality({k \in DOMAIN text : text[k] # HAN})

RECURSIVE SumWeights(_)
SumWeights(parts) ==
    IF parts = <<>> THEN 0 ELSE WeightByClass(Head(parts)) + SumWeights(Tail(parts))

\* C14: _count_chars(text) is twice the number of ideographs of the text
\* plus the number of its other characters, whitespace and punctuation
\* included; it is 0 for the empty text and the count of a concatenation is
\* the sum of the counts.  The packer's current_size, a sum of _count_chars
\* of paragraphs, is that weight of the paragraphs held.
C14_WeightedCount ==
    /\ count_chars(<<>>) = 0
    /\ count_chars(frontmatter) = WeightByClass(frontmatter)
    /\ count_chars(main_content) = WeightByClass(main_content)
    /\ count_chars(frontmatter \o main_content)
          = count_chars(frontmatter) + count_chars(main_content)
    /\ pc = "pack" => pack.current_size = SumWeights(pack.current_block)

\* the packer holds a counted paragraph with an ideograph, a line feed and a
\* full stop in it
C14_Witness ==
    /\ pc = "pack"
    /\ frontmatter # <<>>
    /\ \E i \in DOMAIN pack.current_block :
          /\ \E k \in DOMAIN pack.current_block[i] : pack.current_block[i][k] = HAN
          /\ \E k \in DOMAIN pack.current_block[i] : pack.current_block[i][k] = NL
          /\ \E k \in DOMAIN pack.current_block[i] : pack.current_block[i][k] = DOT
    /\ pack.current_size = 4

\* every block list the program holds in the state
BlockLists ==
    {blocks}
        \cup (IF adjust = NoAdjust THEN {}
              ELSE {adjust.split_blocks, adjust.merged_blocks}
                       \cup (IF adjust.current_block = Null THEN {}
                             ELSE {<<adjust.current_block>>}))
        \cup (IF large = NoLarge THEN {} ELSE {large.blocks})
        \cup (IF sent = NoSent THEN {} ELSE {sent.blocks})
        \cup (IF force = NoForce THEN {} ELSE {force.blocks})

Blank(text) == strip(text) = <<>>

\* C15: empty frontmatter and empty mainmatter give the empty list; a
\* mainmatter that is empty or blank gives no content block; no content
\* block with empty or blank content is created at any point.
C15_NoBlankBlock ==
    /\ (Done /\ frontmatter = <<>> /\ main_content = <<>>) => blocks = <<>>
    /\ (Done /\ Blank(main_content)) => ContentIndexes = {}
    /\ \A b \in UNION {{list[i] : i \in DOMAIN list} : list \in BlockLists} :
          b.block_type = "content" => ~Blank(b.content)

\* a mainmatter of line feeds only came back as the frontmatter block alone
C15_Witness ==
    /\ Done
    /\ frontmatter # <<>>
    /\ main_content # <<>>
    /\ Blank(main_content)
    /\ Len(blocks) = 1
    /\ blocks[1].block_type = "frontmatter"

\* process_document returned the document tp.doc
DocumentDone == tp.pc = "document_done"

\* C16: the document process_document returns holds exactly one block for
\* every block of the parsed document, each with the position (and type) of
\* the block it came from, in ascending position order, whether the
\* rewrites succeed or fail.
C16_OneBlockPerInput ==
    DocumentDone =>
        /\ Len(tp.doc.blocks) = Len(blocks)
        /\ \A i \in DOMAIN tp.doc.blocks :
              /\ i \in DOMAIN blocks
              /\ tp.doc.blocks[i].position = blocks[i].position
              /\ tp.doc.blocks[i].block_type = blocks[i].block_type
        /\ \A i \in 1..(Len(tp.doc.blocks) - 1) :
              tp.doc.blocks[i].position < tp.doc.blocks[i + 1].position

\* process_block is about to return tp.result for the argument tp.block
BlockReturned == tp.pc = "returned"

\* C17: a block returned by process_block(b) has the block_type, level and
\* position of b, whatever calls came before, calls on other blocks of the
\* same content included.
C17_KeepsIdentity ==
    (BlockReturned /\ tp.result # Null) =>
        /\ tp.result.block_type = tp.block.block_type
        /\ tp.result.level = tp.block.level
        /\ tp.result.position = tp.block.position

\* merge_blocks is about to return or raise tp.result for the list tp.list
MergeReturned == tp.pc = "merged"

Ascending(list) ==
    \A i \in 1..(Len(list) - 1) : list[i].position <= list[i + 1].position

\* C18: merge_blocks(blocks) returns a Document whose blocks are the given
\* blocks in ascending position order and whose raw_content is their
\* contents, in that order, joined by a blank line.
C18_MergedInOrder ==
    MergeReturned =>
        /\ DOMAIN tp.result = DocumentFields
        /\ tp.result.blocks = tp.list
        /\ Ascending(tp.result.blocks)
        /\ tp.result.raw_content
              = join(BlankLine, ContentsOf(tp.result.blocks))

\* the model raises on its first two invocations and answers the third
FailsTwice ==
    /\ Len(tp.script) = 3
    /\ tp.script[1] = Raises
    /\ tp.script[2] = Raises
    /\ tp.script[3].kind = "text"
    /\ strip(tp.script[3].text) # <<>>

\* C19: when the model raises on its first two invocations and answers the
\* third, process_block (the cache holding nothing) returns the block built
\* from that answer, after exactly three invocations.
C19_RetriesUntilSuccess ==
    (BlockReturned /\ trace = <<>> /\ FailsTwice) =>
        /\ tp.result # Null
        /\ tp.result.content = strip(tp.script[3].text)
        /\ tp.calls = 3

\* the calls of process_block that have returned, in order
Calls == {i \in DOMAIN trace : trace[i].kind = "call"}

\* call i asked the model once and returned a block, which it stored
Succeeded(i) == trace[i].result # Null /\ trace[i].calls = 1

\* from call i to the later call j the entry written by i is neither cleared
\* nor older than expire_days
EntryKept(i, j) ==
    /\ \A k \in i..j : trace[k].kind # "clear"
    /\ ~(trace[j].at - trace[i].at > ExpireDays)

SameContent(i, j) == trace[i].block.content = trace[j].block.content

SplitPhaseOver == pc = "adjust_split" /\ adjust.idx > Len(blocks)

\* one character that alone weighs more than max_size
LoneHeavyCharacter(content) ==
    Len(content) = 1 /\ CharWeight(content[1]) > max_block_size

\* C21: after the oversize-splitting phase and before the first merge scan
\* every block weighs at most max_size, unless it is a single character
\* whose own weight exceeds max_size.
C21_SplitWithinMax ==
    SplitPhaseOver =>
        \A i \in DOMAIN adjust.split_blocks :
            \/ count_chars(adjust.split_blocks[i].content) <= max_block_size
            \/ LoneHeavyCharacter(adjust.split_blocks[i].content)

\* _split_by_sentences is running (its frame exists)
InSentences == pc \in {"sent", "force"}

\* the blocks _split_by_sentences has emitted so far: its list, the slices
\* _force_split_block is about to hand back and, once the sentence loop is
\* over, the block of the last accumulator
SentenceBlocks ==
    IF pc = "force" THEN sent.blocks \o force.blocks
    ELSE IF sent.sentences = <<>> THEN SentFlushed
    ELSE sent.blocks

\* C22: every block emitted by _split_by_sentences, forced slices included,
\* has a non-empty content that weighs at most max_size, unless it is a
\* single character whose weight alone exceeds max_size.
C22_SentenceBlocksWithinMax ==
    InSentences =>
        \A i \in DOMAIN SentenceBlocks :
            /\ SentenceBlocks[i].content # <<>>
            /\ \/ count_chars(SentenceBlocks[i].content) <= max_block_size
               \/ LoneHeavyCharacter(SentenceBlocks[i].content)

\* _split_by_sentences is about to return a block packed from sentences
\* together with a forced slice that is one ideograph heavier than max_size
C22_Witness ==
    /\ pc = "sent"
    /\ sent.sentences = <<>>
    /\ \E i \in DOMAIN SentenceBlocks :
          /\ SentenceBlocks[i].sliced
          /\ LoneHeavyCharacter(SentenceBlocks[i].content)
    /\ \E i \in DOMAIN SentenceBlocks : ~SentenceBlocks[i].sliced

\* the character at k is a Chinese terminator, or a Latin terminator that a
\* whitespace character or the end of the text follows
TerminatesSentence(content, k) ==
    \/ content[k] \in ChineseTerminators
    \/ /\ content[k] \in LatinTerminators
       /\ k = Len(content) \/ IsSpace(content[k + 1])

\* the content cut after every character that terminates a sentence and
\* nowhere else; each piece stripped, the blank pieces left out
RECURSIVE CutAfterTerminators(_, _, _)
CutAfterTerminators(content, start, k) ==
    LET piece == strip(SubSeq(content, start, Min(k, Len(content))))
        kept == IF piece # <<>> THEN <<piece>> ELSE <<>>
    IN  IF k > Len(content) THEN kept
        ELSE IF TerminatesSentence(content, k)
        THEN kept \o CutAfterTerminators(content, k + 1, k + 1)
        ELSE CutAfterTerminators(content, start, k + 1)

\* _split_by_sentences has segmented its block and packed nothing yet
SentencesListed ==
    pc = "sent" /\ sent.blocks = <<>> /\ sent.current_block = <<>>

\* C24: the sentences of _split_by_sentences are the pieces of the content
\* cut after every Chinese terminator and after every Latin terminator that
\* whitespace or the end of the text follows, and nowhere else: a Latin
\* terminator followed by another character ends no sentence.
C24_SentenceBoundaries ==
    SentencesListed =>
        sent.sentences = CutAfterTerminators(sent.block.content, 1, 1)

\* a content segmented into two sentences or more that holds a Chinese
\* terminator, a Latin terminator before a space and a Latin terminator
\* before a letter
C24_Witness ==
    /\ SentencesListed
    /\ Len(sent.sentences) >= 2
    /\ \E k \in DOMAIN sent.block.content :
          sent.block.content[k] \in ChineseTerminators
    /\ \E k \in 1..(Len(sent.block.content) - 1) :
          /\ sent.block.content[k] \in LatinTerminators
          /\ IsSpace(sent.block.content[k + 1])
    /\ \E k \in 1..(Len(sent.block.content) - 1) :
          /\ sent.block.content[k] \in LatinTerminators
          /\ ~IsSpace(sent.block.content[k + 1])
          /\ ~TerminatesSentence(sent.block.content, k)

\* the packing loop of split_content has flushed its last block and
\* _adjust_block_sizes has changed nothing yet
Packed == pc = "adjust_split" /\ adjust.idx = 1 /\ adjust.split_blocks = <<>>

\* the blocks the packing loop appended (after the frontmatter block)
PackedBlocks == IF frontmatter # <<>> THEN Tail(blocks) ELSE blocks

\* the paragraphs cut into consecutive groups, cuts being the indexes of
\* the paragraphs that end a group before the last
GroupEnds(cuts, n) == IF n = 0 THEN {} ELSE cuts \cup {n}

NthEnd(ends, k) == CHOOSE e \in ends : Cardinality({x \in ends : x <= e}) = k

Groups(paragraphs, cuts) ==
    LET ends == GroupEnds(cuts, Len(paragraphs))
    IN  [k \in 1..Cardinality(ends) |->
            SubSeq(paragraphs,
                   IF k = 1 THEN 1 ELSE NthEnd(ends, k - 1) + 1,
                   NthEnd(ends, k))]

\* every group of two paragraphs or more is within max_size on the sum of
\* its paragraph sizes, and no group could have taken the first paragraph
\* of the next
GreedyGroups(groups) ==
    /\ \A k \in DOMAIN groups :
          Len(groups[k]) >= 2 => SumSizes(groups[k]) <= max_block_size
    /\ \A k \in 1..(Len(groups) - 1) :
          SumSizes(groups[k]) + count_chars(groups[k + 1][1]) > max_block_size

\* the packed blocks are the paragraphs of the mainmatter, in reading order,
\* in greedy groups
PackedGreedily ==
    Packed =>
        \E cuts \in SUBSET (1..(Len(Paragraphs(main_content)) - 1)) :
            LET groups == Groups(Paragraphs(main_content), cuts)
            IN  /\ GreedyGroups(groups)
                /\ Len(PackedBlocks) = Len(groups)
                /\ \A k \in DOMAIN groups :
                      PackedBlocks[k].content = strip(join(BlankLine, groups[k]))

\* the running size is the sum of the sizes of the accumulated paragraphs
RunningSum ==
    pc = "pack" => pack.current_size = SumSizes(pack.current_block)

\* one iteration of the packing loop: the next paragraph joins the
\* accumulator iff the accumulator is empty or the running sum plus its size
\* is within max_size; else the accumulator is flushed as a block and the
\* paragraph starts the next one
FirstFit ==
    (pc = "pack" /\ pack.paragraphs # <<>>) =>
        LET para == Head(pack.paragraphs)
            fits == \/ pack.current_block = <<>>
                    \/ SumSizes(pack.current_block) + count_chars(para)
                          <= max_block_size
        IN  /\ pack'.paragraphs = Tail(pack.paragraphs)
            /\ fits <=> /\ pack'.current_block = Append(pack.current_block, para)
                        /\ blocks' = blocks
            /\ ~fits <=> /\ pack'.current_block = <<para>>
                         /\ Len(blocks') = Len(blocks) + 1

\* C23: paragraph packing in split_content is greedy first-fit in reading
\* order: a paragraph joins the accumulator iff the accumulator is empty or
\* the running sum of paragraph sizes plus its size is <= max_size; so the
\* paragraph sizes of a packed block of two paragraphs or more sum to at
\* most max_size, and the sum of a packed block plus the size of the first
\* paragraph of the next block exceeds max_size.
C23_GreedyFirstFit ==
    /\ []RunningSum
    /\ [][FirstFit]_vars
    /\ []PackedGreedily

\* four paragraphs packed into three blocks, the first of one heavy
\* paragraph, the second of two paragraphs
C23_Witness ==
    /\ Packed
    /\ Len(Paragraphs(main_content)) = 4
    /\ Len(PackedBlocks) = 3
    /\ count_chars(Paragraphs(main_content)[1]) > max_block_size
    /\ HasBlankLine(PackedBlocks[2].content)

\* _split_by_sentences is about to return the list SentFlushed
SentencesReturn == pc = "sent" /\ sent.sentences = <<>>

\* C25: for an oversize single paragraph (taken without whitespace at its
\* ends), the blocks _split_by_sentences returns (packed sentences and
\* forced slices), concatenated in order, are the text of the paragraph,
\* whitespace between sentences and at the slice boundaries included.
C25_CascadeKeepsText ==
    (/\ SentencesReturn
     /\ ~HasBlankLine(sent.block.content)
     /\ strip(sent.block.content) = sent.block.content
     /\ count_chars(sent.block.content) > max_block_size)
        => Contents(SentFlushed) = sent.block.content

\* C26: a returned block that the merge pass formed by tolerance merges
\* only (no forced merge in its history) weighs, blank-line separators
\* included, at most 1.2 * max_size.
C26_ToleranceBound ==
    Adjusted =>
        \A i \in BlockIndexes :
            (blocks[i].merged /\ ~blocks[i].forced) =>
                10 * count_chars(blocks[i].content) <= 12 * max_block_size

\* the blocks whose rewrite failed, as process_document met them
FailedBlocks ==
    SelectSeq(trace, LAMBDA entry : entry.kind = "failed")

\* the blocks of the input document process_document handles: the first
\* frontmatter block and the content blocks
HandledBlocks ==
    (IF FirstFrontmatter(blocks) # Null THEN <<FirstFrontmatter(blocks)>> ELSE <<>>)
        \o ContentBlocksOf(blocks)

\* the rewrite of the block in hand has failed: process_block returns None
\* (an exception of the model included)
RewriteFailed ==
    /\ tp.pc = "returned"
    /\ tp.caller \in {"frontmatter", "content"}
    /\ tp.result = Null

\* after a failure the original block is appended as it is, the blocks
\* already kept and the blocks still to come are untouched and the loop
\* goes on
FailureKeepsOriginal ==
    RewriteFailed =>
        /\ tp'.doc.processed_blocks = Append(tp.doc.processed_blocks, tp.block)
        /\ tp'.doc.content_blocks =
              IF tp.caller = "content" THEN Tail(tp.doc.content_blocks)
              ELSE tp.doc.content_blocks
        /\ tp'.pc = "content_loop"

\* every block whose rewrite failed is in the returned document with its
\* content and position, and the document holds one block for each block
\* handled
FailedBlocksReturned ==
    DocumentDone =>
        /\ \A k \in DOMAIN FailedBlocks :
              \E i \in DOMAIN tp.doc.blocks : tp.doc.blocks[i] = FailedBlocks[k].block
        /\ Len(tp.doc.blocks) = Len(HandledBlocks)

\* C27: in process_document, when the rewrite of a block fails the original
\* block is kept in the output with its content unchanged and the remaining
\* blocks are still processed; a failure removes or alters no other block.
C27_FailureKeepsBlock ==
    /\ [][FailureKeepsOriginal]_vars
    /\ []FailedBlocksReturned

\* a document returned with a block whose rewrite failed, followed by a
\* block that was rewritten after it
C27_Witness ==
    /\ DocumentDone
    /\ Len(FailedBlocks) = 1
    /\ Len(tp.doc.blocks) >= 2
    /\ tp.doc.blocks[1] = FailedBlocks[1].block
    /\ tp.doc.blocks[2] \notin {HandledBlocks[k] : k \in DOMAIN HandledBlocks}

\* a scan of the merge loop is running
Scanning == pc \in {"scan", "merge"}

\* the blocks of the running scan: those emitted and those not yet emitted
BlocksInScan ==
    Len(adjust.merged_blocks) + Len(adjust.split_blocks) - adjust.i

\* a merge leaves one block fewer; no other step of a scan changes the
\* number of blocks
MergeReducesByOne ==
    (Scanning /\ pc' \in {"scan", "merge"} /\ adjust'.scans = adjust.scans) =>
        IF adjust'.merged_count = adjust.merged_count + 1
        THEN BlocksInScan' = BlocksInScan - 1
        ELSE BlocksInScan' = BlocksInScan

\* a scan that is followed by another has merged, and hands over as many
\* blocks fewer as it merged
ScanBeforeLastMerges ==
    (pc = "scan" /\ pc' = "scan" /\ adjust'.scans = adjust.scans + 1) =>
        /\ adjust.merged_count >= 1
        /\ Len(adjust'.split_blocks) = Len(adjust.split_blocks) - adjust.merged_count

\* the scans begun (a running one counted) are at most the blocks with
\* which the loop was entered
ScansBounded ==
    /\ (Scanning /\ adjust.entered >= 1) => adjust.scans + 1 <= adjust.entered
    /\ (Adjusted /\ adjust.entered >= 1) => adjust.scans <= adjust.entered

\* C28: the merge loop of _adjust_block_sizes is bounded: every merge
\* reduces the number of blocks by exactly one, every scan except the last
\* performs at least one merge, and the number of scans is at most the
\* number of blocks that enter the loop (when there is one at least).
C28_MergeLoopBounded ==
    /\ [][MergeReducesByOne]_vars
    /\ [][ScanBeforeLastMerges]_vars
    /\ []ScansBounded

\* the loop was entered with three blocks or more, merged, and returned
\* after its second scan
C28_Witness ==
    /\ Adjusted
    /\ adjust.entered >= 3
    /\ adjust.scans = 2
    /\ Len(blocks) < adjust.entered

\* the running size of the block in hand never exceeds its actual size
RunningWithinActual ==
    pc = "merge" => adjust.current_size <= count_chars(adjust.current_block.content)

\* merges happen in the first scan only
MergesInFirstScanOnly ==
    (Scanning /\ adjust.merged_count > 0) => adjust.scans = 0

\* C29: the merge loop of _adjust_block_sizes performs no merge in its
\* second or any later scan (the running size on which a scan chains its
\* merges never exceeds the actual size of the merged block), so the loop
\* returns after two scans at most.
C29_NoLateMerge ==
    /\ RunningWithinActual
    /\ MergesInFirstScanOnly
    /\ Adjusted => adjust.scans <= 2

\* the loop returned after a second scan several blocks, one of them formed
\* by a forced merge that left its running size below its actual size
C29_Witness ==
    /\ Adjusted
    /\ adjust.scans = 2
    /\ Len(blocks) >= 2
    /\ \E i \in BlockIndexes : blocks[i].forced
    /\ merge_event.kind = "forced"
    /\ merge_event.running < merge_event.actual

\* no frontmatter, and a mainmatter of one or more paragraphs separated by
\* exactly one blank line, each without whitespace at its ends and within
\* max_size
WholeParagraphsWithinMax ==
    /\ frontmatter = <<>>
    /\ main_content # <<>>
    /\ \A k \in DOMAIN MainPieces :
          /\ MainPieces[k] # <<>>
          /\ strip(MainPieces[k]) = MainPieces[k]
          /\ count_chars(MainPieces[k]) <= max_block_size

\* C30: for an empty frontmatter and a mainmatter of paragraphs separated by
\* exactly one blank line, each free of leading and trailing whitespace and
\* of weighted size <= max_size, the contents of the returned blocks joined
\* in position order by a blank line are the mainmatter exactly.
C30_RoundTrip ==
    (Done /\ WholeParagraphsWithinMax) =>
        join(BlankLine, ContentsOf(blocks)) = main_content

\* four such paragraphs returned in two blocks or more, one of them formed
\* by a merge and one packed block heavier than max_size with its separators
C30_Witness ==
    /\ Done
    /\ WholeParagraphsWithinMax
    /\ Len(MainPieces) = 4
    /\ Len(blocks) >= 2
    /\ \E i \in BlockIndexes : blocks[i].merged
    /\ \E i \in BlockIndexes : count_chars(blocks[i].content) > max_block_size

====
